---- MODULE Spec2Model ----
(***************************************************************************)
(* Model of lib/nostd/sail_arena.c: a bump allocator over one caller-      *)
(* supplied buffer.  The three statics of the file are the program state;  *)
(* every exported function is one action.  size_t and uintptr_t are        *)
(* unsigned machine words of WordBits bits, so every C addition and        *)
(* subtraction is taken modulo Word.                                       *)
(***************************************************************************)
EXTENDS Integers, Naturals, Sequences, FiniteSets, TLC

\* ------------------------------------------------------------------ bounds
WordBits == 5          \* width of size_t / uintptr_t in the model
MaxBase == 1           \* low buffer base addresses are 1..MaxBase
MaxLen == 4            \* buffer lengths are 0..MaxLen
MaxSize == 2           \* small request sizes are 0..MaxSize
MaxAlignLog == 2       \* alignments are 2^0 .. 2^MaxAlignLog
MaxAllocs == 2         \* successful allocations recorded between two clears

RECURSIVE Pow2(_)
Pow2(n) == IF n = 0 THEN 1 ELSE 2 * Pow2(n - 1)

Word == Pow2(WordBits)                  \* number of values of a machine word
WordMax == Word - 1                     \* SIZE_MAX / UINTPTR_MAX

Min(a, b) == IF a < b THEN a ELSE b

NULL == 0
SAIL_ARENA_ALIGNMENT == 4

\* --------------------------------------------------------- input domains
\* Buffers handed to sail_arena_init are objects of the C program: the base
\* is not the null address and the whole object lies below the top of the
\* address space.  HighBase is the last default-aligned address: a buffer
\* there is so close to the top of the address space that rounding an address
\* inside it up wraps around.
HighBase == Word - SAIL_ARENA_ALIGNMENT
Bases == (1..MaxBase) \cup {HighBase}
Lengths == 0..MaxLen
Sizes == (0..MaxSize) \cup {WordMax - 1, WordMax}
Aligns == {Pow2(k) : k \in 0..Min(MaxAlignLog, WordBits - 1)}
Addrs == 0..WordMax

\* ------------------------------------------------------------------ state
VARIABLES
  sail_arena_buffer,    \* address of the first byte of the buffer
  sail_arena_length,    \* recorded capacity
  sail_arena_offset,    \* bump offset
  written,              \* has a function of the file stored into the buffer
  call,                 \* name of the function called last
  ret,                  \* outcome of that call
  allocs,               \* regions returned since the last init/reset
  epoch                 \* which call last cleared the arena, and whether it
                        \* had handed out regions then

arena == <<sail_arena_buffer, sail_arena_length, sail_arena_offset, written>>
vars == <<sail_arena_buffer, sail_arena_length, sail_arena_offset, written,
          call, ret, allocs, epoch>>

NoRet == [ok |-> FALSE, ptr |-> NULL]

\* ------------------------------------------------- machine-word arithmetic
RECURSIVE BitAnd(_, _)
BitAnd(x, y) ==
  IF x = 0 \/ y = 0 THEN 0
  ELSE (x % 2) * (y % 2) + 2 * BitAnd(x \div 2, y \div 2)

WAdd(x, y) == (x + y) % Word
WSub(x, y) == (x + Word - y) % Word

\* ------------------------------------------------------ sail_malloc_align
\* line 24: absolute address of the next free byte
NextFree(buffer, offset) == WAdd(buffer, offset)

\* mutant: the adjustment is added without testing the remainder
AlignUp_no_test(addr, align) ==
  WAdd(addr, WSub(align, BitAnd(addr, WSub(align, 1))))

\* lines 26-29: round the address up to a multiple of align
AlignUp(addr, align) ==
  LET modulo == BitAnd(addr, WSub(align, 1))
  IN  IF modulo # 0 THEN WAdd(addr, WSub(align, modulo)) ELSE addr

\* mutant: rounds the offset instead of the absolute address
RoundedOffset_relative(buffer, offset, align) == AlignUp(offset, align)

\* lines 24-30: the offset of the rounded address relative to the buffer
RoundedOffset(buffer, offset, align) ==
  WSub(AlignUp(NextFree(buffer, offset), align), buffer)

\* mutant: the bounds test forgets the size of the request
Fits_ignores_size(offset, size, length) == offset <= length

\* line 32: the bounds test, in size_t arithmetic
Fits(offset, size, length) == WAdd(offset, size) <= length

\* lines 22-40: the whole function as a map from the arena and the arguments
\* to the returned pointer and the new sail_arena_offset
MallocAlign(buffer, length, offset, size, align) ==
  LET rounded == RoundedOffset(buffer, offset, align)
  IN  IF Fits(rounded, size, length)
      THEN [ok |-> TRUE, ptr |-> WAdd(buffer, rounded), start |-> rounded,
            offset |-> WAdd(rounded, size)]
      ELSE [ok |-> FALSE, ptr |-> NULL, start |-> rounded, offset |-> offset]

\* the state change of one sail_malloc_align(size, align) execution
MallocAlignBody(size, align) ==
  LET r == MallocAlign(sail_arena_buffer, sail_arena_length,
                       sail_arena_offset, size, align)
  IN  /\ r.ok => Len(allocs) < MaxAllocs
      /\ sail_arena_offset' = r.offset
      /\ ret' = [ok |-> r.ok, ptr |-> r.ptr]
      /\ allocs' = IF r.ok
                   THEN Append(allocs, [start |-> r.start, size |-> size])
                   ELSE allocs
      /\ UNCHANGED <<sail_arena_buffer, sail_arena_length, written, epoch>>

\* ---------------------------------------------------------------- actions
\* mutant: init records the buffer and forgets to rewind the offset
sail_arena_init_keeps_offset(buffer, length) ==
  /\ sail_arena_buffer' = buffer
  /\ sail_arena_length' = length
  /\ written' = FALSE
  /\ call' = "sail_arena_init"
  /\ ret' = NoRet
  /\ allocs' = <<>>
  /\ epoch' = [by |-> "init", dirty |-> allocs # <<>>]
  /\ UNCHANGED sail_arena_offset

sail_arena_init(buffer, length) ==
  /\ sail_arena_buffer' = buffer
  /\ sail_arena_length' = length
  /\ sail_arena_offset' = 0
  /\ written' = FALSE
  /\ call' = "sail_arena_init"
  /\ ret' = NoRet
  /\ allocs' = <<>>
  /\ epoch' = [by |-> "init", dirty |-> allocs # <<>>]

\* mutant: reset forgets to rewind the offset
sail_arena_reset_keeps_offset ==
  /\ call' = "sail_arena_reset"
  /\ ret' = NoRet
  /\ allocs' = <<>>
  /\ epoch' = [by |-> "reset", dirty |-> allocs # <<>>]
  /\ UNCHANGED <<sail_arena_buffer, sail_arena_length, sail_arena_offset,
                 written>>

\* mutant: reset also clears the buffer's bytes
sail_arena_reset_clears_buffer ==
  /\ sail_arena_offset' = 0
  /\ written' = TRUE
  /\ call' = "sail_arena_reset"
  /\ ret' = NoRet
  /\ allocs' = <<>>
  /\ epoch' = [by |-> "reset", dirty |-> allocs # <<>>]
  /\ UNCHANGED <<sail_arena_buffer, sail_arena_length>>

\* mutant: reset also forgets the capacity
sail_arena_reset_clears_length ==
  /\ sail_arena_offset' = 0
  /\ sail_arena_length' = 0
  /\ call' = "sail_arena_reset"
  /\ ret' = NoRet
  /\ allocs' = <<>>
  /\ epoch' = [by |-> "reset", dirty |-> allocs # <<>>]
  /\ UNCHANGED <<sail_arena_buffer, written>>

sail_arena_reset ==
  /\ sail_arena_offset' = 0
  /\ call' = "sail_arena_reset"
  /\ ret' = NoRet
  /\ allocs' = <<>>
  /\ epoch' = [by |-> "reset", dirty |-> allocs # <<>>]
  /\ UNCHANGED <<sail_arena_buffer, sail_arena_length, written>>

sail_malloc_align(size, align) ==
  /\ call' = "sail_malloc_align"
  /\ MallocAlignBody(size, align)

\* mutant: the convenience call asks for no alignment
sail_malloc_unaligned(size) ==
  /\ call' = "sail_malloc"
  /\ MallocAlignBody(size, 1)

sail_malloc(size) ==
  /\ call' = "sail_malloc"
  /\ MallocAlignBody(size, SAIL_ARENA_ALIGNMENT)

\* mutant: freeing the most recent region gives its space back
sail_free_rewinds(ptr) ==
  LET top == allocs # <<>>
               /\ ptr = WAdd(sail_arena_buffer, allocs[Len(allocs)].start)
  IN  /\ call' = "sail_free"
      /\ ret' = NoRet
      /\ sail_arena_offset' =
           IF top THEN allocs[Len(allocs)].start ELSE sail_arena_offset
      /\ allocs' = IF top THEN SubSeq(allocs, 1, Len(allocs) - 1) ELSE allocs
      /\ UNCHANGED <<sail_arena_buffer, sail_arena_length, written, epoch>>

sail_free(ptr) ==
  /\ call' = "sail_free"
  /\ ret' = NoRet
  /\ UNCHANGED <<sail_arena_buffer, sail_arena_length, sail_arena_offset,
                 written, allocs, epoch>>

\* pointers a caller plausibly hands to sail_free: null, a pointer it was
\* given since the last clear, and a stray address
FreeArgs ==
  {NULL, WordMax}
    \cup {WAdd(sail_arena_buffer, allocs[i].start) : i \in 1..Len(allocs)}

ValidBuffer(buffer, length) == buffer # NULL /\ buffer + length < Word

Init ==
  \E buffer \in Bases, length \in Lengths :
    /\ ValidBuffer(buffer, length)
    /\ sail_arena_buffer = buffer
    /\ sail_arena_length = length
    /\ sail_arena_offset = 0
    /\ written = FALSE
    /\ call = "sail_arena_init"
    /\ ret = NoRet
    /\ allocs = <<>>
    /\ epoch = [by |-> "init", dirty |-> FALSE]

Next ==
  \/ \E buffer \in Bases, length \in Lengths :
       ValidBuffer(buffer, length) /\ sail_arena_init(buffer, length)
  \/ sail_arena_reset
  \/ \E size \in Sizes, align \in Aligns : sail_malloc_align(size, align)
  \/ \E size \in Sizes : sail_malloc(size)
  \/ \E ptr \in FreeArgs : sail_free(ptr)

Spec == Init /\ [][Next]_vars

\* ------------------------------------------------- vocabulary of the claims
\* Unbounded (mathematical) arithmetic, written independently of the code.
RoundUpTo(n, align) == ((n + align - 1) \div align) * align

\* the offset at which buffer + offset is the first multiple of align at or
\* after buffer + offset, as an unbounded integer
ExactRounded(buffer, offset, align) == RoundUpTo(buffer + offset, align) - buffer

Bytes(region) == region.start..(region.start + region.size - 1)

IsAllocCall == call \in {"sail_malloc_align", "sail_malloc"}

Last(seq) == seq[Len(seq)]

\* end of the region returned before the last one (0 when there is none)
PrevEnd ==
  IF Len(allocs) < 2 THEN 0
  ELSE allocs[Len(allocs) - 1].start + allocs[Len(allocs) - 1].size

\* ------------------------------------------------------------------ claims

\* C1: the regions returned by successful sail_malloc_align calls since the
\* last init (with no reset in between) are pairwise non-overlapping, and
\* each lies within [0, length) relative to the buffer base, for every size
\* and every power-of-two alignment.
C1_RegionsDisjointInBuffer ==
  \A i \in 1..Len(allocs) :
    /\ Bytes(allocs[i]) \subseteq 0..(sail_arena_length - 1)
    /\ \A j \in 1..(i - 1) : Bytes(allocs[i]) \cap Bytes(allocs[j]) = {}

\* C2: every successful sail_malloc_align(size, align) with a power-of-two
\* align returns a pointer whose absolute address is a multiple of align,
\* whatever the buffer base and the current offset.
C2_ReturnedAddressAligned ==
  [][(call' = "sail_malloc_align" /\ ret'.ok) =>
       \A size \in Sizes, align \in Aligns :
         sail_malloc_align(size, align) => ret'.ptr % align = 0]_vars

\* an unaligned buffer, padding was skipped, and the pointer is 4-aligned
C2_Witness ==
  /\ call = "sail_malloc_align"
  /\ ret.ok
  /\ sail_arena_buffer % 2 = 1
  /\ Last(allocs).start > PrevEnd
  /\ ret.ptr = sail_arena_buffer + Last(allocs).start
  /\ ret.ptr % 4 = 0
  /\ sail_arena_offset = Last(allocs).start + Last(allocs).size

\* C3: in every reachable state 0 <= sail_arena_offset <= sail_arena_length.
C3_OffsetWithinLength ==
  /\ 0 <= sail_arena_offset
  /\ sail_arena_offset <= sail_arena_length

\* an allocation has just filled the buffer exactly
C3_Witness ==
  /\ IsAllocCall
  /\ ret.ok
  /\ Last(allocs).size > 0
  /\ sail_arena_length > 0
  /\ sail_arena_offset = sail_arena_length

\* C4: when sail_malloc_align(size, align) cannot satisfy the request
\* because rounded_offset + size > length, it returns NULL and leaves offset,
\* buffer and length as they were (the padding is not consumed), so that a
\* later request that fits is placed at the rounded pre-failure offset.
C4_NoSpaceLeavesArena ==
  [][\A size \in Sizes, align \in Aligns :
       (/\ sail_malloc_align(size, align)
        /\ ExactRounded(sail_arena_buffer, sail_arena_offset, align) + size
             > sail_arena_length)
       => (~ret'.ok /\ ret'.ptr = NULL /\ UNCHANGED arena)]_vars

\* C5: sail_malloc_align(size, align) succeeds if and only if
\* rounded_offset + size <= length; on success the region starts at
\* rounded_offset and the new offset is rounded_offset + size.
C5_SucceedsIffFits ==
  [][\A size \in Sizes, align \in Aligns :
       sail_malloc_align(size, align) =>
         LET rounded ==
               ExactRounded(sail_arena_buffer, sail_arena_offset, align)
         IN  /\ ret'.ok <=> rounded + size <= sail_arena_length
             /\ ret'.ok => /\ ret'.ptr = sail_arena_buffer + rounded
                           /\ sail_arena_offset' = rounded + size]_vars

\* C6: between resets the offset never decreases: no call to sail_malloc,
\* sail_malloc_align or sail_free leaves sail_arena_offset smaller than it
\* was before the call.
C6_OffsetNeverDecreases ==
  [][call' \in {"sail_malloc_align", "sail_malloc", "sail_free"}
       => sail_arena_offset' >= sail_arena_offset]_vars

\* the first allocation of a freshly initialised arena over the same buffer
FirstAllocOnFresh(buffer, length, size, align) ==
  MallocAlign(buffer, length, 0, size, align)

\* C7: after sail_arena_reset, whatever was allocated before, the next
\* successful sail_malloc_align(size, align) returns the pointer that the
\* same request returns as the first allocation of an arena freshly
\* initialised with the same buffer and length.
C7_ResetReusesFromStart ==
  [][(epoch.by = "reset" /\ allocs = <<>>
        /\ call' = "sail_malloc_align" /\ ret'.ok) =>
       \A size \in Sizes, align \in Aligns :
         sail_malloc_align(size, align) =>
           LET fresh == FirstAllocOnFresh(sail_arena_buffer,
                                          sail_arena_length, size, align)
           IN  fresh.ok /\ ret'.ptr = fresh.ptr]_vars

\* the first region handed out after a reset of an arena that had regions
C7_Witness ==
  /\ call = "sail_malloc_align"
  /\ ret.ok
  /\ epoch = [by |-> "reset", dirty |-> TRUE]
  /\ Len(allocs) = 1
  /\ allocs[1].size > 0
  /\ sail_arena_offset = allocs[1].start + allocs[1].size
  /\ ret.ptr = sail_arena_buffer + allocs[1].start

\* C8: sail_free changes nothing of the arena, whatever pointer it is
\* given: buffer, length, offset and the buffer's bytes stay as they were,
\* so a released region is not handed out again before a reset.
C8_FreeChangesNothing ==
  [][call' = "sail_free" => UNCHANGED <<arena, allocs>>]_vars

\* sail_free has returned while regions are live and the offset is past them
C8_Witness ==
  /\ call = "sail_free"
  /\ allocs # <<>>
  /\ Last(allocs).size > 0
  /\ sail_arena_offset = Last(allocs).start + Last(allocs).size
  /\ WAdd(sail_arena_buffer, Last(allocs).start) \in FreeArgs

\* C9: sail_arena_reset can be called in every state, sets the offset to
\* 0, and leaves the buffer base, the length and the buffer's bytes alone.
C9_ResetOnlyRewinds ==
  /\ [](ENABLED sail_arena_reset)
  /\ [][call' = "sail_arena_reset" =>
         /\ sail_arena_offset' = 0
         /\ UNCHANGED <<sail_arena_buffer, sail_arena_length, written>>]_vars

\* a reset of an arena that had handed out regions
C9_Witness ==
  /\ call = "sail_arena_reset"
  /\ epoch = [by |-> "reset", dirty |-> TRUE]
  /\ sail_arena_offset = 0
  /\ sail_arena_length > 0
  /\ ~written

\* C10: sail_malloc(size) returns what sail_malloc_align(size, 4) returns
\* from the same arena, and leaves the arena in the same state.
C10_MallocIsAlign4 ==
  [][call' = "sail_malloc" =>
       \A size \in Sizes :
         sail_malloc(size) =>
           LET r == MallocAlign(sail_arena_buffer, sail_arena_length,
                                sail_arena_offset, size, 4)
           IN  /\ ret' = [ok |-> r.ok, ptr |-> r.ptr]
               /\ sail_arena_offset' = r.offset
               /\ UNCHANGED <<sail_arena_buffer, sail_arena_length,
                              written>>]_vars

\* sail_malloc skipped padding to return a 4-aligned pointer
C10_Witness ==
  /\ call = "sail_malloc"
  /\ ret.ok
  /\ Last(allocs).size > 0
  /\ Last(allocs).start > PrevEnd
  /\ ret.ptr = sail_arena_buffer + Last(allocs).start
  /\ sail_arena_offset = Last(allocs).start + Last(allocs).size

\* C11: after the successful allocations made since the last init/reset
\* (failed allocations and sail_free calls in between included), the offset
\* is the sum of their sizes and paddings: each returned region starts at or
\* after the end of the one before it (the first at or after 0), and
\* sail_arena_offset is the end of the last one (0 when there is none).
C11_OffsetIsSumOfSizesAndPadding ==
  /\ allocs = <<>> => sail_arena_offset = 0
  /\ allocs # <<>> =>
       sail_arena_offset = Last(allocs).start + Last(allocs).size
  /\ \A i \in 1..Len(allocs) :
       allocs[i].start >=
         (IF i = 1 THEN 0 ELSE allocs[i - 1].start + allocs[i - 1].size)

\* ------------------------------------------------- the 8-byte scenario
\* An arena over an 8-byte buffer whose base is a multiple of 4, driven with
\* the request sizes 1, 3 and 4.
ScenarioBuffers ==
  {[base |-> b, length |-> 8] : b \in {4, 8, 12}}
ScenarioSizes == {1, 3, 4}

InitScenario ==
  \E buf \in ScenarioBuffers :
    /\ sail_arena_buffer = buf.base
    /\ sail_arena_length = buf.length
    /\ sail_arena_offset = 0
    /\ written = FALSE
    /\ call = "sail_arena_init"
    /\ ret = NoRet
    /\ allocs = <<>>
    /\ epoch = [by |-> "init", dirty |-> FALSE]

NextScenario ==
  \/ \E buf \in ScenarioBuffers : sail_arena_init(buf.base, buf.length)
  \/ sail_arena_reset
  \/ \E size \in ScenarioSizes, align \in Aligns :
       sail_malloc_align(size, align)
  \/ \E size \in ScenarioSizes : sail_malloc(size)
  \/ \E ptr \in FreeArgs : sail_free(ptr)

SpecScenario == InitScenario /\ [][NextScenario]_vars

\* C12: on an 8-byte buffer at a base B that is a multiple of 4,
\* sail_malloc_align(3, 4) returns B and sets the offset to 3; then
\* sail_malloc_align(4, 4) pads to 4, returns B+4 and sets the offset to 8;
\* then sail_malloc(1) returns NULL and the offset stays 8; then, after
\* sail_arena_reset, sail_malloc_align(3, 4) returns B again.
C12_EightByteScenario ==
  [][/\ (allocs = <<>> /\ sail_arena_offset = 0 /\ sail_malloc_align(3, 4))
          => /\ ret' = [ok |-> TRUE, ptr |-> sail_arena_buffer]
             /\ allocs' = <<[start |-> 0, size |-> 3]>>
             /\ sail_arena_offset' = 3
     /\ (allocs = <<[start |-> 0, size |-> 3]>> /\ sail_arena_offset = 3
           /\ sail_malloc_align(4, 4))
          => /\ ret' = [ok |-> TRUE, ptr |-> sail_arena_buffer + 4]
             /\ allocs' = <<[start |-> 0, size |-> 3], [start |-> 4, size |-> 4]>>
             /\ sail_arena_offset' = 8
     /\ (allocs = <<[start |-> 0, size |-> 3], [start |-> 4, size |-> 4]>>
           /\ sail_arena_offset = 8 /\ sail_malloc(1))
          => /\ ret' = [ok |-> FALSE, ptr |-> NULL]
             /\ sail_arena_offset' = 8
     /\ (allocs = <<[start |-> 0, size |-> 3], [start |-> 4, size |-> 4]>>
           /\ sail_arena_offset = 8 /\ sail_arena_reset)
          => /\ sail_arena_offset' = 0
             /\ allocs' = <<>>
             /\ epoch' = [by |-> "reset", dirty |-> TRUE]
     /\ (epoch = [by |-> "reset", dirty |-> TRUE] /\ allocs = <<>>
           /\ sail_malloc_align(3, 4))
          => /\ ret' = [ok |-> TRUE, ptr |-> sail_arena_buffer]
             /\ sail_arena_offset' = 3]_vars

\* the third step has been taken: both regions are out, the buffer is full
\* and sail_malloc has just failed
C12_Witness ==
  /\ sail_arena_length = 8
  /\ sail_arena_buffer % 4 = 0
  /\ allocs = <<[start |-> 0, size |-> 3], [start |-> 4, size |-> 4]>>
  /\ call = "sail_malloc"
  /\ ret = [ok |-> FALSE, ptr |-> NULL]
  /\ sail_arena_offset = 8

\* C13: sail_arena_init(buffer, length) can be called in every state, also
\* while regions are out; it records buffer and length and sets the offset to
\* 0, so the arena it leaves depends on its arguments alone.
C13_InitOverwritesArena ==
  /\ [](\A buffer \in Bases, length \in Lengths :
          ValidBuffer(buffer, length) =>
            ENABLED sail_arena_init(buffer, length))
  /\ [][call' = "sail_arena_init" =>
         \A buffer \in Bases, length \in Lengths :
           sail_arena_init(buffer, length) =>
             /\ sail_arena_buffer' = buffer
             /\ sail_arena_length' = length
             /\ sail_arena_offset' = 0
             /\ allocs' = <<>>]_vars

\* init has just been called on an arena that had regions out
C13_Witness ==
  /\ call = "sail_arena_init"
  /\ epoch = [by |-> "init", dirty |-> TRUE]
  /\ sail_arena_offset = 0
  /\ sail_arena_length > 0
  /\ allocs = <<>>

\* C14: in fixed-width unsigned arithmetic sail_malloc_align never succeeds
\* through wraparound: whenever it succeeds, the unbounded sum
\* rounded_offset + size is <= length, the returned region ends inside the
\* buffer, and the offset is not lower than before the call.
C14_NoSuccessByWraparound ==
  [][(call' = "sail_malloc_align" /\ ret'.ok) =>
       \A size \in Sizes, align \in Aligns :
         sail_malloc_align(size, align) =>
           /\ ExactRounded(sail_arena_buffer, sail_arena_offset, align) + size
                <= sail_arena_length
           /\ Last(allocs').start + size <= sail_arena_length
           /\ sail_arena_offset' >= sail_arena_offset]_vars

\* C15: the padding a successful sail_malloc_align(size, align) consumes is
\* minimal: the region starts at the smallest offset >= the current offset at
\* which buffer + offset is a multiple of align, so the padding is less than
\* align, and is 0 when buffer + offset is already a multiple of align.
C15_PaddingIsMinimal ==
  [][(call' = "sail_malloc_align" /\ ret'.ok) =>
       \A size \in Sizes, align \in Aligns :
         sail_malloc_align(size, align) =>
           LET start == Last(allocs').start
               padding == start - sail_arena_offset
           IN  /\ padding \in 0..(align - 1)
               /\ (sail_arena_buffer + start) % align = 0
               /\ \A o \in sail_arena_offset..(start - 1) :
                    (sail_arena_buffer + o) % align # 0
               /\ (sail_arena_buffer + sail_arena_offset) % align = 0
                    => padding = 0]_vars

\* a first region placed after align - 1 bytes of padding, and a second one
\* placed with none
C15_Witness ==
  /\ call = "sail_malloc_align"
  /\ ret.ok
  /\ Len(allocs) = 2
  /\ allocs[1].start = SAIL_ARENA_ALIGNMENT - 1
  /\ allocs[1].size > 0
  /\ (sail_arena_buffer + allocs[1].start) % SAIL_ARENA_ALIGNMENT = 0
  /\ allocs[2].start = allocs[1].start + allocs[1].size
  /\ sail_arena_offset = allocs[2].start + allocs[2].size

\* C16: the recorded buffer base and length change only in sail_arena_init:
\* sail_malloc, sail_malloc_align (successful or not), sail_arena_reset and
\* sail_free leave both as they were.
C16_OnlyInitChangesBufferAndLength ==
  [][call' # "sail_arena_init" =>
       UNCHANGED <<sail_arena_buffer, sail_arena_length>>]_vars

\* a reset, then a successful and a failed allocation, on the buffer at the
\* top of the address space, which still has its base and its capacity
C16_Witness ==
  /\ epoch.by = "reset"
  /\ call = "sail_malloc"
  /\ ~ret.ok
  /\ allocs # <<>>
  /\ sail_arena_buffer = HighBase
  /\ sail_arena_length = SAIL_ARENA_ALIGNMENT - 1

====
